---------------------------- MODULE Spec2Model ----------------------------
(***************************************************************************)
(* Jarvis 1.1: the goal store (goals.json), the config store (config.json) *)
(* and the daily schedule generator of src/goalsManager.js.                *)
(*                                                                         *)
(* Conventions of the model                                                *)
(*  - a "HH:MM" string or a formatted "h:mm AM" string is a sequence of    *)
(*    one-character strings;                                               *)
(*  - a calendar date of a goal is a day number (ISO dates compare like    *)
(*    day numbers); day 0 is a Monday;                                     *)
(*  - null is the empty sequence <<>> where the code stores null or a      *)
(*    date, and the string "null" where it stores null or a string;        *)
(*  - a schedule entry also carries `start` and `end`, the minute values   *)
(*    that createTask / createFixedBlockEntry hand to formatTime.          *)
(***************************************************************************)
EXTENDS Integers, Sequences, FiniteSets, TLC

VARIABLES
    goalsFile,   \* contents of goals.json: a sequence of goals
    configFile,  \* config.json: <<>> when missing, <<config>> otherwise
    today,       \* local calendar day of the host clock
    utcToday,    \* UTC calendar day of the host clock
    nextId,      \* Date.now() stamp of the next goal created
    schedule,    \* <<result>> of the latest generateTodaysSchedule, else <<>>
    ret,         \* what the latest command returned: "ok", "fail" or "none",
                 \* or "error" when it threw
    logged,      \* the line the latest command wrote with console.log, or ""
    writers,     \* the two racing writer processes (SpecRace only)
    defaultBlocks \* DEFAULT_CONFIG.fixedBlocks, the array of the running process

vars == <<goalsFile, configFile, today, utcToday, nextId, schedule, ret, logged,
          writers, defaultBlocks>>

(***************************************************************************)
(* Bounds                                                                  *)
(***************************************************************************)
MaxGoals == 2
LifeMaxGoals == 1
MaxBlocks == 2
MaxDay == 1
MaxCompleted == 2
StreakMaxDay == 15
StreakMaxCompleted == 3
WeekMaxDay == 7
WeekMaxCompleted == 1
MaxIterations == 6

BUFFER_MINUTES == 10

Null == <<>>

(***************************************************************************)
(* Strings                                                                 *)
(***************************************************************************)
Digit == <<"0", "1", "2", "3", "4", "5", "6", "7", "8", "9">>

IsDigit(c) == \E i \in 1..10 : Digit[i] = c

DigitValue(c) == (CHOOSE i \in 1..10 : Digit[i] = c) - 1

\* Number(s) for a string of decimal digits
RECURSIVE Number(_)
Number(s) ==
    IF Len(s) = 0 THEN 0
    ELSE 10 * Number(SubSeq(s, 1, Len(s) - 1)) + DigitValue(s[Len(s)])

\* n.toString() for an integer n
RECURSIVE NatToString(_)
NatToString(n) ==
    IF n < 10 THEN <<Digit[n + 1]>>
    ELSE NatToString(n \div 10) \o <<Digit[(n % 10) + 1]>>

toString(n) == IF n < 0 THEN <<"-">> \o NatToString(0 - n) ELSE NatToString(n)

\* s.padStart(2, "0")
PadStart2(s) == IF Len(s) < 2 THEN <<"0">> \o s ELSE s

\* the JavaScript remainder a % b for b > 0: it has the sign of a
JsRem(a, b) == IF a >= 0 THEN a % b ELSE 0 - ((0 - a) % b)

\* timeString.split(':')
RECURSIVE Split(_)
Split(s) ==
    IF \A i \in 1..Len(s) : s[i] # ":" THEN <<s>>
    ELSE LET k == CHOOSE i \in 1..Len(s) :
                      s[i] = ":" /\ \A j \in 1..(i - 1) : s[j] # ":"
         IN  <<SubSeq(s, 1, k - 1)>> \o Split(SubSeq(s, k + 1, Len(s)))

(***************************************************************************)
(* SECTION 4 of goalsManager.js: utility functions                         *)
(***************************************************************************)
timeToMinutes(timeString) ==
    LET parts == Split(timeString)
        hours == Number(parts[1])
        minutes == Number(parts[2])
    IN  hours * 60 + minutes

formatTime(minutes) ==
    LET hours == minutes \div 60
        mins == JsRem(minutes, 60)
        period == IF hours >= 12 THEN <<"P", "M">> ELSE <<"A", "M">>
        displayHour == IF JsRem(hours, 12) # 0 THEN JsRem(hours, 12) ELSE 12
        displayMins == PadStart2(toString(mins))
    IN  toString(displayHour) \o <<":">> \o displayMins \o <<" ">> \o period

\* /^([0-1][0-9]|2[0-3]):[0-5][0-9]$/.test(time)
isValidTimeFormat(time) ==
    /\ Len(time) = 5
    /\ \/ time[1] \in {"0", "1"} /\ IsDigit(time[2])
       \/ time[1] = "2" /\ time[2] \in {"0", "1", "2", "3"}
    /\ time[3] = ":"
    /\ time[4] \in {"0", "1", "2", "3", "4", "5"}
    /\ IsDigit(time[5])

(***************************************************************************)
(* The host clock                                                          *)
(***************************************************************************)
WeekDays == <<"Monday", "Tuesday", "Wednesday", "Thursday", "Friday",
              "Saturday", "Sunday">>

\* toLocaleDateString("en-US", { weekday: "long" })
DayName(d) == WeekDays[(d % 7) + 1]

\* the ISO text of a day, for the dates a fixed block carries
IsoText == <<"day-1", "day0", "day1", "day2", "day3", "day4", "day5", "day6",
             "day7", "day8", "day9", "day10", "day11", "day12", "day13",
             "day14", "day15", "day16", "day17", "day18", "day19", "day20">>

IsoDate(d) == IsoText[d + 2]

(***************************************************************************)
(* SECTION 2 of goalsManager.js: schedule generation                       *)
(***************************************************************************)
\* shouldGenerateTaskToday with a target date that is no longer a day of the
\* goal
shouldGenerateTaskTodayBeforeTarget(goal, todayString) ==
    LET dayName == DayName(todayString)
    IN  IF goal.metric.lastCompleted = <<todayString>> THEN FALSE
        ELSE IF goal.frequency = "daily" THEN todayString < goal.targetDate
        ELSE IF goal.frequency = "weekly" /\ goal.weekDay = dayName
             THEN todayString < goal.targetDate
        ELSE IF goal.frequency = "one-time" THEN todayString >= goal.targetDate
        ELSE FALSE

\* shouldGenerateTaskToday with a one-time goal that is done for good once it
\* was completed
shouldGenerateTaskTodayOnceOnly(goal, todayString) ==
    LET dayName == DayName(todayString)
    IN  IF goal.metric.lastCompleted = <<todayString>> THEN FALSE
        ELSE IF goal.frequency = "daily" THEN todayString <= goal.targetDate
        ELSE IF goal.frequency = "weekly" /\ goal.weekDay = dayName
             THEN todayString <= goal.targetDate
        ELSE IF goal.frequency = "one-time"
             THEN todayString >= goal.targetDate /\ goal.metric.completed = 0
        ELSE FALSE

\* shouldGenerateTaskToday without its "already completed today" test
shouldGenerateTaskTodayIgnoresCompletion(goal, todayString) ==
    LET dayName == DayName(todayString)
    IN  IF goal.frequency = "daily" THEN todayString <= goal.targetDate
        ELSE IF goal.frequency = "weekly" /\ goal.weekDay = dayName
             THEN todayString <= goal.targetDate
        ELSE IF goal.frequency = "one-time" THEN todayString >= goal.targetDate
        ELSE FALSE

shouldGenerateTaskToday(goal, todayString) ==
    LET dayName == DayName(todayString)
    IN  IF goal.metric.lastCompleted = <<todayString>> THEN FALSE
        ELSE IF goal.frequency = "daily" THEN todayString <= goal.targetDate
        ELSE IF goal.frequency = "weekly" /\ goal.weekDay = dayName
             THEN todayString <= goal.targetDate
        ELSE IF goal.frequency = "one-time" THEN todayString >= goal.targetDate
        ELSE FALSE

\* createTask that labels the first part as well
createTaskLabelsFirstPart(goal, startTime, duration, partNumber) ==
    [ goalId |-> goal.id,
      description |-> [ text |-> goal.description, part |-> partNumber ],
      startTime |-> formatTime(startTime),
      endTime |-> formatTime(startTime + duration),
      duration |-> duration,
      priority |-> goal.priority,
      completed |-> FALSE,
      isPart |-> TRUE,
      isFixed |-> FALSE,
      start |-> startTime,
      end |-> startTime + duration ]

createTask(goal, startTime, duration, partNumber) ==
    LET isMultiPart == partNumber > 1
    IN  [ goalId |-> goal.id,
          description |-> [ text |-> goal.description,
                            part |-> IF isMultiPart THEN partNumber ELSE 0 ],
          startTime |-> formatTime(startTime),
          endTime |-> formatTime(startTime + duration),
          duration |-> duration,
          priority |-> goal.priority,
          completed |-> FALSE,
          isPart |-> isMultiPart,
          isFixed |-> FALSE,
          start |-> startTime,
          end |-> startTime + duration ]

createFixedBlockEntry(block) ==
    [ id |-> block.name,
      description |-> [ text |-> block.name, part |-> 0 ],
      startTime |-> formatTime(block.start),
      endTime |-> formatTime(block.end),
      duration |-> block.end - block.start,
      isFixed |-> TRUE,
      priority |-> "FIXED",
      start |-> block.start,
      end |-> block.end ]

\* Array.prototype.sort with a comparator, which is a stable sort: the order
\* of the indices 1..n under cmp, where cmp[i][j] is the comparator's value
RECURSIVE InsertSorted(_, _, _)
InsertSorted(x, sorted, cmp) ==
    IF sorted = <<>> THEN <<x>>
    ELSE IF cmp[Head(sorted)][x] > 0 THEN <<x>> \o sorted
    ELSE <<Head(sorted)>> \o InsertSorted(x, Tail(sorted), cmp)

RECURSIVE SortedIndices(_, _)
SortedIndices(n, cmp) ==
    IF n = 0 THEN <<>>
    ELSE InsertSorted(n, SortedIndices(n - 1, cmp), cmp)

blockIsActive(block, todayString, todayDayName) ==
    IF block.recurring # "undefined" THEN block.recurring = "true"
    ELSE IF block.recurrence = "daily" THEN TRUE
    ELSE IF block.recurrence = "weekly" THEN block.weekDay = todayDayName
    ELSE IF block.recurrence = "one-time" THEN block.date = todayString
    ELSE FALSE

prepareFixedBlocks(config, localDay, utcDay) ==
    LET todayString == IsoDate(utcDay)
        todayDayName == DayName(localDay)
        keep(block) == blockIsActive(block, todayString, todayDayName)
        active == SelectSeq(config.fixedBlocks, keep)
        mapped == [ i \in 1..Len(active) |->
                      [ name |-> active[i].name,
                        start |-> timeToMinutes(active[i].startTime),
                        end |-> timeToMinutes(active[i].endTime),
                        isFixed |-> TRUE ] ]
        cmp == [ i \in 1..Len(mapped) |-> [ j \in 1..Len(mapped) |->
                   mapped[i].start - mapped[j].start ] ]
        order == SortedIndices(Len(mapped), cmp)
    IN  [ i \in 1..Len(mapped) |-> mapped[order[i]] ]

priorityOrder(p) == IF p = "high" THEN 3 ELSE IF p = "medium" THEN 2 ELSE 1

\* sortGoalsByPriorityAndDuration that compares the priorities only
sortGoalsByPriorityOnly(goals) ==
    LET cmp == [ i \in 1..Len(goals) |-> [ j \in 1..Len(goals) |->
                   priorityOrder(goals[j].priority)
                     - priorityOrder(goals[i].priority) ] ]
        order == SortedIndices(Len(goals), cmp)
    IN  [ i \in 1..Len(goals) |-> goals[order[i]] ]

sortGoalsByPriorityAndDuration(goals) ==
    LET compare(a, b) ==
            IF priorityOrder(b.priority) # priorityOrder(a.priority)
            THEN priorityOrder(b.priority) - priorityOrder(a.priority)
            ELSE b.metric.dailyMinutes - a.metric.dailyMinutes
        cmp == [ i \in 1..Len(goals) |-> [ j \in 1..Len(goals) |->
                   compare(goals[i], goals[j]) ] ]
        order == SortedIndices(Len(goals), cmp)
    IN  [ i \in 1..Len(goals) |-> goals[order[i]] ]

\* findOverlappingBlock that does not ask whether the cursor has passed the block
findOverlappingBlockPassed(fixedBlocks, currentTime, proposedEnd) ==
    LET hits == { i \in 1..Len(fixedBlocks) :
                    proposedEnd >= fixedBlocks[i].start }
    IN  IF hits = {} THEN 0
        ELSE CHOOSE i \in hits : \A j \in hits : i <= j

\* findOverlappingBlock that does not ask whether the task reaches the block
findOverlappingBlockUnreached(fixedBlocks, currentTime, proposedEnd) ==
    LET hits == { i \in 1..Len(fixedBlocks) :
                    currentTime < fixedBlocks[i].end }
    IN  IF hits = {} THEN 0
        ELSE CHOOSE i \in hits : \A j \in hits : i <= j

\* findOverlappingBlock looking only at blocks that start after the cursor
findOverlappingBlockAhead(fixedBlocks, currentTime, proposedEnd) ==
    LET hits == { i \in 1..Len(fixedBlocks) :
                    /\ currentTime < fixedBlocks[i].start
                    /\ proposedEnd >= fixedBlocks[i].start }
    IN  IF hits = {} THEN 0
        ELSE CHOOSE i \in hits : \A j \in hits : i <= j

\* fixedBlocks.find(block => currentTime < block.end && proposedEnd >= block.start):
\* the index of the first match, 0 if none
findOverlappingBlock(fixedBlocks, currentTime, proposedEnd) ==
    LET hits == { i \in 1..Len(fixedBlocks) :
                    /\ currentTime < fixedBlocks[i].end
                    /\ proposedEnd >= fixedBlocks[i].start }
    IN  IF hits = {} THEN 0
        ELSE CHOOSE i \in hits : \A j \in hits : i <= j

\* the fixed-block entry as the loop pushes it, with the cursor and the
\* proposed end of the iteration that found the block (kept for the
\* properties only)
pushedBlockEntry(block, currentTime, proposedEnd) ==
    createFixedBlockEntry(block)
      @@ [ cursor |-> currentTime, proposedEnd |-> proposedEnd ]

\* the cursor after a fixed block, with a buffer as after a task
cursorAfterBlockWithBuffer(block) == block.end + BUFFER_MINUTES

\* currentTime = overlappingBlock.end
cursorAfterBlock(block) == block.end

\* currentTime = currentTime + remainingDuration + BUFFER_MINUTES
cursorAfterTask(currentTime, remainingDuration) ==
    currentTime + remainingDuration + BUFFER_MINUTES

\* the while loop of scheduleGoalWithSplitting: one call is the rest of the
\* loop. `iterations` counts the iterations begun so far; a loop that begins
\* more than MaxIterations of them is cut off and reported as `looping`
RECURSIVE splitLoop(_, _, _, _, _, _, _, _)
splitLoop(goal, fixedBlocks, remainingDuration, partNumber, totalScheduled, currentTime, sched, iterations) ==
    IF ~(remainingDuration > 0) \/ iterations >= MaxIterations
    THEN [ newCurrentTime |-> currentTime,
           minutesScheduled |-> totalScheduled,
           schedule |-> sched,
           iterations |-> iterations,
           looping |-> remainingDuration > 0 ]
    ELSE
      LET proposedEnd == currentTime + remainingDuration
          k == findOverlappingBlock(fixedBlocks, currentTime, proposedEnd)
      IN  IF k # 0
          THEN LET overlappingBlock == fixedBlocks[k]
                   timeBeforeBlock == overlappingBlock.start - currentTime
                   entry == pushedBlockEntry(overlappingBlock, currentTime,
                                             proposedEnd)
               IN  IF timeBeforeBlock > 0
                   THEN splitLoop(goal, fixedBlocks,
                            remainingDuration - timeBeforeBlock,
                            partNumber + 1,
                            totalScheduled + timeBeforeBlock,
                            cursorAfterBlock(overlappingBlock),
                            sched \o << createTask(goal, currentTime,
                                            timeBeforeBlock, partNumber),
                                        entry >>,
                            iterations + 1)
                   ELSE splitLoop(goal, fixedBlocks, remainingDuration,
                            partNumber, totalScheduled,
                            cursorAfterBlock(overlappingBlock),
                            Append(sched, entry),
                            iterations + 1)
          ELSE splitLoop(goal, fixedBlocks, 0, partNumber,
                   totalScheduled + remainingDuration,
                   cursorAfterTask(currentTime, remainingDuration),
                   Append(sched, createTask(goal, currentTime,
                                     remainingDuration, partNumber)),
                   iterations + 1)

\* scheduleGoalWithSplitting taking the buffer for a part of the task
scheduleGoalWithSplittingCountsBuffer(goal, currentTime, fixedBlocks, sched) ==
    splitLoop(goal, fixedBlocks, goal.metric.dailyMinutes + BUFFER_MINUTES, 1, 0,
              currentTime, sched, 0)

scheduleGoalWithSplitting(goal, currentTime, fixedBlocks, sched) ==
    splitLoop(goal, fixedBlocks, goal.metric.dailyMinutes, 1, 0, currentTime,
              sched, 0)

\* the for loop of generateTodaysSchedule over the sorted goals; `loops` has
\* for each goal the number of iterations of its loop and whether the loop
\* was cut off
RECURSIVE scheduleAll(_, _, _, _, _, _)
scheduleAll(sortedGoals, fixedBlocks, currentTime, sched, totalMinutes, loops) ==
    IF sortedGoals = <<>>
    THEN [ currentTime |-> currentTime, schedule |-> sched,
           totalMinutes |-> totalMinutes, loops |-> loops ]
    ELSE LET result == scheduleGoalWithSplitting(Head(sortedGoals), currentTime,
                                                 fixedBlocks, sched)
         IN  scheduleAll(Tail(sortedGoals), fixedBlocks, result.newCurrentTime,
                         result.schedule, totalMinutes + result.minutesScheduled,
                         Append(loops, [ iterations |-> result.iterations,
                                         looping |-> result.looping ]))

\* sortedArrays sorting the caller's array itself, as without the filter
sortedArraysInPlaceOfCaller(goals, localDay) ==
    LET needed(goal) == shouldGenerateTaskToday(goal, localDay)
        sorted == sortGoalsByPriorityAndDuration(goals)
    IN  [ goals |-> sorted, sortedGoals |-> SelectSeq(sorted, needed) ]

\* the two arrays of generateTodaysSchedule once the goals are sorted: sort
\* works in place on the array that filter has made, so that `goals` is the
\* caller's array as the call leaves it
sortedArrays(goals, localDay) ==
    LET needed(goal) == shouldGenerateTaskToday(goal, localDay)
        tasksNeeded == SelectSeq(goals, needed)
    IN  [ goals |-> goals,
          sortedGoals |-> sortGoalsByPriorityAndDuration(tasksNeeded) ]

\* formatTime(currentTime) as the end of the day
endTimeOfCursor(currentTime) == formatTime(currentTime)

endTimeOf(currentTime) == formatTime(currentTime - BUFFER_MINUTES)

\* isOvercommitted that counts a day filled to the minute as overcommitted
isOvercommittedWhenFull(totalMinutes, availableMinutes) ==
    totalMinutes >= availableMinutes

isOvercommitted(totalMinutes, availableMinutes) == totalMinutes > availableMinutes

\* the returned record, and with it `goalsArgument`: the array the caller
\* passed, as the caller finds it after the call
generateTodaysSchedule(goals, config, localDay, utcDay) ==
    LET startTimeMinutes == timeToMinutes(config.startTime)
        availableMinutes == config.availableHours * 60
        fixedBlocks == prepareFixedBlocks(config, localDay, utcDay)
        arrays == sortedArrays(goals, localDay)
        sortedGoals == arrays.sortedGoals
        done == scheduleAll(sortedGoals, fixedBlocks, startTimeMinutes, <<>>, 0, <<>>)
    IN  [ tasks |-> done.schedule,
          startTime |-> config.startTime,
          endTime |-> endTimeOf(done.currentTime),
          totalMinutes |-> done.totalMinutes,
          availableMinutes |-> availableMinutes,
          overcommitted |-> isOvercommitted(done.totalMinutes, availableMinutes),
          goalsArgument |-> arrays.goals,
          loops |-> done.loops ]

(***************************************************************************)
(* SECTION 3 of goalsManager.js: task completion and progress              *)
(***************************************************************************)
\* full calendar days between two dates
getDaysSince(lastCompletedString, todayString) == todayString - lastCompletedString

\* Math.round(x / y * 100) for x >= 0 and y > 0: halves round up
RoundPercent(x, y) == (200 * x + y) \div (2 * y)

Min(a, b) == IF a < b THEN a ELSE b
Max(a, b) == IF a > b THEN a ELSE b

\* calculateProgress without the cap at 100
calculateProgressUncapped(goal, todayInString) ==
    IF goal.frequency = "one-time"
    THEN [ progressPercentage |-> IF goal.metric.completed > 0 THEN 100 ELSE 0,
           expectedCompletions |-> 1 ]
    ELSE LET daysSinceCreated == getDaysSince(goal.createdDate, todayInString)
             expectedCompletions ==
                 IF goal.frequency = "daily" THEN Max(1, daysSinceCreated)
                 ELSE Max(1, daysSinceCreated \div 7)
         IN  [ progressPercentage |->
                   RoundPercent(goal.metric.completed, expectedCompletions),
               expectedCompletions |-> expectedCompletions ]

calculateProgress(goal, todayInString) ==
    IF goal.frequency = "one-time"
    THEN [ progressPercentage |-> IF goal.metric.completed > 0 THEN 100 ELSE 0,
           expectedCompletions |-> 1 ]
    ELSE LET daysSinceCreated == getDaysSince(goal.createdDate, todayInString)
             expectedCompletions ==
                 IF goal.frequency = "daily" THEN Max(1, daysSinceCreated)
                 ELSE Max(1, daysSinceCreated \div 7)
             actualCompletions == goal.metric.completed
             percentage == RoundPercent(actualCompletions, expectedCompletions)
         IN  [ progressPercentage |-> Min(percentage, 100),
               expectedCompletions |-> expectedCompletions ]

\* calculateStreak with a grace period of two days for daily goals
calculateStreakTwoDayGrace(goal, todayString) ==
    IF goal.frequency = "one-time" THEN 0
    ELSE IF goal.metric.lastCompleted = Null THEN 1
    ELSE LET daysSinceLastCompleted ==
                 getDaysSince(goal.metric.lastCompleted[1], todayString)
         IN  IF goal.frequency = "daily"
             THEN (IF daysSinceLastCompleted <= 2
                   THEN goal.metric.streak + 1 ELSE 1)
             ELSE (IF daysSinceLastCompleted \div 7 <= 1
                   THEN goal.metric.streak + 1 ELSE 1)

\* calculateStreak that lets a weekly streak live for seven days only
calculateStreakSevenDays(goal, todayString) ==
    IF goal.frequency = "one-time" THEN 0
    ELSE IF goal.metric.lastCompleted = Null THEN 1
    ELSE LET daysSinceLastCompleted ==
                 getDaysSince(goal.metric.lastCompleted[1], todayString)
         IN  IF goal.frequency = "daily"
             THEN (IF daysSinceLastCompleted <= 1
                   THEN goal.metric.streak + 1 ELSE 1)
             ELSE (IF daysSinceLastCompleted <= 7
                   THEN goal.metric.streak + 1 ELSE 1)

calculateStreak(goal, todayString) ==
    IF goal.frequency = "one-time" THEN 0
    ELSE IF goal.metric.lastCompleted = Null THEN 1
    ELSE LET daysSinceLastCompleted ==
                 getDaysSince(goal.metric.lastCompleted[1], todayString)
             weeksSinceLastCompleted == daysSinceLastCompleted \div 7
         IN  IF goal.frequency = "daily"
             THEN (IF daysSinceLastCompleted <= 1
                   THEN goal.metric.streak + 1 ELSE 1)
             ELSE (IF weeksSinceLastCompleted <= 1
                   THEN goal.metric.streak + 1 ELSE 1)

(***************************************************************************)
(* SECTION 1 of goalsManager.js: the goal store                            *)
(***************************************************************************)
loadGoals == goalsFile

\* goals.findIndex(goal => goal.id === goalId): 0 when there is none
findIndex(goals, goalId) ==
    LET hits == { i \in 1..Len(goals) : goals[i].id = goalId }
    IN  IF hits = {} THEN 0 ELSE CHOOSE i \in hits : \A j \in hits : i <= j

\* completedMetric with the progress computed from the goal as it was read
completedMetricStaleProgress(goal, localDay, utcDay) ==
    LET progress == calculateProgress(goal, utcDay)
        streak == calculateStreak(goal, localDay)
    IN  [ goal.metric EXCEPT
            !.completed = goal.metric.completed + 1,
            !.lastCompleted = <<localDay>>,
            !.streak = streak,
            !.progressPercentage = progress.progressPercentage,
            !.expectedCompletions = progress.expectedCompletions ]

\* the metric that completeTask hands to updateGoal
completedMetric(goal, localDay, utcDay) ==
    LET updatedGoal ==
            [goal EXCEPT !.metric.completed = goal.metric.completed + 1]
        progress == calculateProgress(updatedGoal, utcDay)
        streak == calculateStreak(goal, localDay)
    IN  [ goal.metric EXCEPT
            !.completed = goal.metric.completed + 1,
            !.lastCompleted = <<localDay>>,
            !.streak = streak,
            !.progressPercentage = progress.progressPercentage,
            !.expectedCompletions = progress.expectedCompletions ]

\* mergeUpdates with the spread the other way round: the stored goal wins
mergeUpdatesKeepsOld(data, goalIndex, metric) == data

\* mergeUpdates that stores the updated goal behind the other goals
mergeUpdatesMovesLast(data, goalIndex, metric) ==
    Append(SelectSeq(data, LAMBDA goal : goal.id # data[goalIndex].id),
           [data[goalIndex] EXCEPT !.metric = metric])

\* data[goalIndex] = {...data[goalIndex], ...updates} with updates = {metric}
mergeUpdates(data, goalIndex, metric) ==
    [data EXCEPT ![goalIndex] = [data[goalIndex] EXCEPT !.metric = metric]]

createGoalObject(id, description, frequency, priority, targetDate, weekDay, dailyMinutes, utcDay) ==
    [ id |-> id,
      description |-> description,
      frequency |-> frequency,
      createdDate |-> utcDay,
      weekDay |-> weekDay,
      targetDate |-> targetDate,
      priority |-> priority,
      metric |-> [ dailyMinutes |-> dailyMinutes,
                   completed |-> 0,
                   expectedCompletions |-> 0,
                   progressPercentage |-> 0,
                   streak |-> 0,
                   lastCompleted |-> Null ] ]

(***************************************************************************)
(* The config store                                                        *)
(***************************************************************************)
\* minutesToTime of goalsManager.js, used here to write "HH:MM" inputs
minutesToTime(minutes) ==
    LET hours == minutes \div 60
        mins == JsRem(minutes, 60)
    IN  PadStart2(toString(hours)) \o <<":">> \o PadStart2(toString(mins))

DEFAULT_CONFIG ==
    [ startTime |-> <<"0", "9", ":", "0", "0">>,
      availableHours |-> 8,
      fixedBlocks |-> <<>> ]

loadConfig ==
    IF configFile = <<>>
    THEN [ startTime |-> DEFAULT_CONFIG.startTime,
           availableHours |-> DEFAULT_CONFIG.availableHours,
           fixedBlocks |-> defaultBlocks ]
    ELSE configFile[1]

newFixedBlock(name, startTime, endTime, recurrence, weekDayOrDate) ==
    [ name |-> name,
      startTime |-> startTime,
      endTime |-> endTime,
      recurrence |-> recurrence,
      weekDay |-> IF recurrence = "weekly" THEN weekDayOrDate ELSE "null",
      date |-> IF recurrence = "one-time" THEN weekDayOrDate ELSE "null",
      recurring |-> "undefined" ]

\* what addFixedBlock writes to the console when it refuses a block
addFixedBlockMessage(startTime, endTime, recurrence, weekDayOrDate) ==
    IF ~isValidTimeFormat(startTime) \/ ~isValidTimeFormat(endTime)
    THEN "Invalid time format"
    ELSE IF recurrence \notin {"daily", "weekly", "one-time"}
    THEN "Invalid recurrence. Use: daily, weekly, or one-time"
    ELSE IF recurrence = "weekly" /\ weekDayOrDate = "null"
    THEN "Weekly blocks require a day (e.g., Monday, Tuesday)"
    ELSE IF recurrence = "one-time" /\ weekDayOrDate = "null"
    THEN "One-time blocks require a date (YYYY-MM-DD)"
    ELSE ""

\* addFixedBlockAccepts without the check that a weekly block names a day
addFixedBlockAcceptsWithoutDay(startTime, endTime, recurrence, weekDayOrDate) ==
    /\ isValidTimeFormat(startTime) /\ isValidTimeFormat(endTime)
    /\ recurrence \in {"daily", "weekly", "one-time"}
    /\ ~(recurrence = "one-time" /\ weekDayOrDate = "null")

\* the checks of addFixedBlock before it loads the configuration
addFixedBlockAccepts(startTime, endTime, recurrence, weekDayOrDate) ==
    /\ isValidTimeFormat(startTime) /\ isValidTimeFormat(endTime)
    /\ recurrence \in {"daily", "weekly", "one-time"}
    /\ ~(recurrence = "weekly" /\ weekDayOrDate = "null")
    /\ ~(recurrence = "one-time" /\ weekDayOrDate = "null")


(***************************************************************************)
(* Inputs of the commands                                                  *)
(***************************************************************************)
GoalIds == 1..MaxGoals

\* what the add-goal prompts may be answered with
GoalInputs ==
    { [ description |-> "Read", frequency |-> "daily", priority |-> "high",
        targetDate |-> 20, weekDay |-> "null", dailyMinutes |-> 60 ],
      [ description |-> "Run", frequency |-> "daily", priority |-> "high",
        targetDate |-> 20, weekDay |-> "null", dailyMinutes |-> 30 ],
      [ description |-> "Tidy", frequency |-> "daily", priority |-> "low",
        targetDate |-> 0, weekDay |-> "null", dailyMinutes |-> 90 ],
      [ description |-> "Review", frequency |-> "weekly", priority |-> "medium",
        targetDate |-> 20, weekDay |-> "Monday", dailyMinutes |-> 60 ],
      [ description |-> "Taxes", frequency |-> "one-time", priority |-> "low",
        targetDate |-> 0, weekDay |-> "null", dailyMinutes |-> 30 ] }

\* the goals the scheduler is run on: two priorities, three durations
ScheduleGoalInputs ==
    { g \in GoalInputs : g.description \in {"Read", "Run", "Tidy"} }

\* the goals of the completion life cycle: one of each frequency
LifeGoalInputs ==
    { g \in GoalInputs : g.description \in {"Read", "Review", "Taxes"} }

\* goals of each frequency that are due today, tomorrow and in a week
WeekGoalInputs ==
    { [ description |-> "Habit", frequency |-> f, priority |-> "medium",
        targetDate |-> t, weekDay |-> IF f = "weekly" THEN "Monday" ELSE "null",
        dailyMinutes |-> 30 ] :
      f \in {"daily", "weekly", "one-time"}, t \in {0, 1, 7} }

\* one daily goal of one to five hours
LunchGoalInputs ==
    { [ description |-> "Deep work", frequency |-> "daily", priority |-> "high",
        targetDate |-> 20, weekDay |-> "null", dailyMinutes |-> m ] :
      m \in {60, 180, 240, 300} }

T0900 == minutesToTime(540)
T0930 == minutesToTime(570)
T1000 == minutesToTime(600)
T1030 == minutesToTime(630)

\* what `config add-block` may be called with; the last four are refused
BlockInputs ==
    { [ name |-> "Standup", startTime |-> T0930, endTime |-> T1000,
        recurrence |-> "daily", weekDayOrDate |-> "null" ],
      [ name |-> "Workshop", startTime |-> T0930, endTime |-> T1030,
        recurrence |-> "weekly", weekDayOrDate |-> "Monday" ],
      [ name |-> "Backwards", startTime |-> T1000, endTime |-> T0930,
        recurrence |-> "daily", weekDayOrDate |-> "null" ],
      [ name |-> "Dentist", startTime |-> T0900, endTime |-> T0930,
        recurrence |-> "one-time", weekDayOrDate |-> IsoDate(0) ],
      [ name |-> "NoDay", startTime |-> T0930, endTime |-> T1000,
        recurrence |-> "weekly", weekDayOrDate |-> "null" ],
      [ name |-> "NoDate", startTime |-> T0930, endTime |-> T1000,
        recurrence |-> "one-time", weekDayOrDate |-> "null" ],
      [ name |-> "Short", startTime |-> <<"9", ":", "3", "0">>, endTime |-> T1000,
        recurrence |-> "daily", weekDayOrDate |-> "null" ],
      [ name |-> "Monthly", startTime |-> T0930, endTime |-> T1000,
        recurrence |-> "monthly", weekDayOrDate |-> "null" ] }

\* the blocks of BlockInputs that addFixedBlock stores
AcceptedBlockInputs ==
    { in \in BlockInputs :
        addFixedBlockAccepts(in.startTime, in.endTime, in.recurrence,
                             in.weekDayOrDate) }

\* config add-block Lunch 12:00 13:00 daily
LunchBlock ==
    [ name |-> "Lunch", startTime |-> minutesToTime(720),
      endTime |-> minutesToTime(780), recurrence |-> "daily",
      weekDayOrDate |-> "null" ]

StartTimeInputs == { T0900, T0930 }

\* strings that are not HH:MM in 24-hour form: "9:30" and "24:00"
MalformedStartTimeInputs ==
    { <<"9", ":", "3", "0">>, <<"2", "4", ":", "0", "0">> }

HoursInputs == { 0, 1, 25 }

(***************************************************************************)
(* The commands, each one handler run to its end.  Writing goals.json may  *)
(* fail (the catch branch of saveGoals); config.json is taken to be        *)
(* writable.  A command that changes a store discards the schedule that    *)
(* was displayed before it.                                                *)
(***************************************************************************)
\* the host is west of Greenwich: the UTC date is the local date until the
\* local evening, and the next day's date from then to local midnight
UtcAhead == {0, 1}

addGoal(in, maxGoals) ==
    /\ nextId <= maxGoals
    /\ LET goalData == createGoalObject(nextId, in.description, in.frequency,
                           in.priority, in.targetDate, in.weekDay,
                           in.dailyMinutes, utcToday)
           data == Append(loadGoals, goalData)
       IN  \E saved \in BOOLEAN :
             /\ goalsFile' = IF saved THEN data ELSE goalsFile
             /\ nextId' = IF saved THEN nextId + 1 ELSE nextId
    /\ ret' = "ok"
    /\ logged' = ""
    /\ schedule' = <<>>
    /\ UNCHANGED <<defaultBlocks, configFile, today, utcToday, writers>>

deleteGoal(goalId) ==
    /\ LET goals == loadGoals
           index == findIndex(goals, goalId)
       IN  IF index = 0
           THEN /\ ret' = "fail"
                /\ logged' = ""
                /\ goalsFile' = goalsFile
           ELSE /\ ret' = "ok"
                /\ logged' = "Deleted: "
                /\ \E saved \in BOOLEAN :
                     goalsFile' = IF saved
                                  THEN SubSeq(goals, 1, index - 1)
                                       \o SubSeq(goals, index + 1, Len(goals))
                                  ELSE goalsFile
    /\ schedule' = <<>>
    /\ UNCHANGED <<defaultBlocks, configFile, today, utcToday, nextId, writers>>

\* updateGoal(goalId, {metric}) on the stored goals
updateGoal(goalId, metric) ==
    LET data == loadGoals
        goalIndex == findIndex(data, goalId)
    IN  IF goalIndex = 0
        THEN /\ ret' = "fail"
             /\ logged' = "Goal was not found"
             /\ goalsFile' = goalsFile
        ELSE \E saved \in BOOLEAN :
               /\ goalsFile' = IF saved THEN mergeUpdates(data, goalIndex, metric)
                               ELSE goalsFile
               /\ ret' = IF saved THEN "ok" ELSE "fail"
               /\ logged' = ""

\* completeTask that reports success for a goal it did not find
completeTaskReportsMissingAsDone(goalId, maxCompleted) ==
    /\ LET goals == loadGoals
           index == findIndex(goals, goalId)
       IN  IF index = 0
           THEN /\ ret' = "ok"
                /\ logged' = "Goal not found"
                /\ goalsFile' = goalsFile
           ELSE /\ goals[index].metric.completed < maxCompleted
                /\ updateGoal(goalId, completedMetric(goals[index], today, utcToday))
    /\ schedule' = <<>>
    /\ UNCHANGED <<defaultBlocks, configFile, today, utcToday, nextId, writers>>

completeTask(goalId, maxCompleted) ==
    /\ LET goals == loadGoals
           index == findIndex(goals, goalId)
       IN  IF index = 0
           THEN /\ ret' = "fail"
                /\ logged' = "Goal not found"
                /\ goalsFile' = goalsFile
           ELSE /\ goals[index].metric.completed < maxCompleted
                /\ updateGoal(goalId, completedMetric(goals[index], today, utcToday))
    /\ schedule' = <<>>
    /\ UNCHANGED <<defaultBlocks, configFile, today, utcToday, nextId, writers>>

\* POST /api/goals/:id/skip: goalsManager.js exports no skipTask, so the
\* name is undefined in server.js, the call throws a TypeError and the handler
\* answers 500 from its catch block
skipTask(goalId) ==
    /\ ret' = "error"
    /\ logged' = ""
    /\ UNCHANGED <<defaultBlocks, goalsFile, configFile, today, utcToday, nextId, schedule,
                   writers>>

generateSchedule ==
    /\ schedule' = << generateTodaysSchedule(loadGoals, loadConfig, today, utcToday) >>
    /\ ret' = "ok"
    /\ logged' = ""
    /\ UNCHANGED <<defaultBlocks, goalsFile, configFile, today, utcToday, nextId, writers>>

setStartTime(time) ==
    /\ configFile' = << [loadConfig EXCEPT !.startTime = time] >>
    /\ ret' = "ok"
    /\ logged' = ""
    /\ schedule' = <<>>
    /\ UNCHANGED <<defaultBlocks, goalsFile, today, utcToday, nextId, writers>>

setAvailableHours(hours) ==
    /\ IF hours <= 0 \/ hours > 24
       THEN /\ ret' = "fail"
            /\ configFile' = configFile
       ELSE /\ ret' = "ok"
            /\ configFile' = << [loadConfig EXCEPT !.availableHours = hours] >>
    /\ logged' = ""
    /\ schedule' = <<>>
    /\ UNCHANGED <<defaultBlocks, goalsFile, today, utcToday, nextId, writers>>

addFixedBlock(in, maxBlocks) ==
    /\ IF ~addFixedBlockAccepts(in.startTime, in.endTime, in.recurrence,
                                in.weekDayOrDate)
       THEN /\ ret' = "fail"
            /\ logged' = addFixedBlockMessage(in.startTime, in.endTime,
                                              in.recurrence, in.weekDayOrDate)
            /\ configFile' = configFile
       ELSE LET config == loadConfig
                block == newFixedBlock(in.name, in.startTime, in.endTime,
                                       in.recurrence, in.weekDayOrDate)
            IN  /\ Len(config.fixedBlocks) < maxBlocks
                /\ ret' = "ok"
                /\ logged' = ""
                /\ configFile' = << [config EXCEPT
                                       !.fixedBlocks = Append(@, block)] >>
    /\ schedule' = <<>>
    /\ UNCHANGED <<defaultBlocks, goalsFile, today, utcToday, nextId, writers>>

\* index counts from 0
removeFixedBlock(index) ==
    /\ LET config == loadConfig
           n == Len(config.fixedBlocks)
       IN  IF index < 0 \/ index >= n
           THEN /\ ret' = "fail"
                /\ configFile' = configFile
           ELSE /\ ret' = "ok"
                /\ configFile' = << [config EXCEPT !.fixedBlocks =
                                       SubSeq(@, 1, index)
                                       \o SubSeq(@, index + 2, n)] >>
    /\ logged' = ""
    /\ schedule' = <<>>
    /\ UNCHANGED <<defaultBlocks, goalsFile, today, utcToday, nextId, writers>>

\* the host clock moves on: the local date, the UTC date, or both
advanceClock(maxDay) ==
    /\ \E t \in today..maxDay, u \in utcToday..(maxDay + 1) :
         /\ <<t, u>> # <<today, utcToday>>
         /\ u - t \in UtcAhead
         /\ today' = t
         /\ utcToday' = u
    /\ ret' = "none"
    /\ logged' = ""
    /\ schedule' = <<>>
    /\ UNCHANGED <<defaultBlocks, goalsFile, configFile, nextId, writers>>

NoWriters == [ w \in {1, 2} |-> [ pc |-> "off" ] ]

(***************************************************************************)
(* Spec: the config store and the schedule generator on one day            *)
(***************************************************************************)
\* no goals, no config.json, and a host clock on a Monday
Init ==
    /\ goalsFile = <<>>
    /\ configFile = <<>>
    /\ today = 0
    /\ utcToday \in { today + d : d \in UtcAhead }
    /\ nextId = 1
    /\ schedule = <<>>
    /\ ret = "none"
    /\ logged = ""
    /\ writers = NoWriters
    /\ defaultBlocks = <<>>

AddGoal == \E in \in ScheduleGoalInputs : addGoal(in, MaxGoals)
DeleteGoal == \E goalId \in GoalIds : deleteGoal(goalId)
SetStartTime == \E time \in StartTimeInputs : setStartTime(time)
SetAvailableHours == \E hours \in HoursInputs : setAvailableHours(hours)
AddFixedBlock == \E in \in AcceptedBlockInputs : addFixedBlock(in, MaxBlocks)
RemoveFixedBlock == \E index \in -1..MaxBlocks : removeFixedBlock(index)
GenerateSchedule == generateSchedule

Next ==
    \/ AddGoal
    \/ SetStartTime
    \/ SetAvailableHours
    \/ AddFixedBlock
    \/ RemoveFixedBlock
    \/ GenerateSchedule

Spec == Init /\ [][Next]_vars

(***************************************************************************)
(* SpecConfig: the config store alone, called with well-formed and with    *)
(* malformed arguments                                                     *)
(***************************************************************************)
SetAnyStartTime ==
    \E time \in StartTimeInputs \cup MalformedStartTimeInputs : setStartTime(time)
AddAnyFixedBlock == \E in \in BlockInputs : addFixedBlock(in, MaxBlocks)

NextConfig ==
    \/ SetAnyStartTime
    \/ SetAvailableHours
    \/ AddAnyFixedBlock
    \/ RemoveFixedBlock
    \/ GenerateSchedule

SpecConfig == Init /\ [][NextConfig]_vars

(***************************************************************************)
(* SpecGoals: the goal store over several days, default configuration      *)
(***************************************************************************)
AddLifeGoal == \E in \in LifeGoalInputs : addGoal(in, LifeMaxGoals)
CompleteTask == \E goalId \in GoalIds : completeTask(goalId, MaxCompleted)
SkipTask == \E goalId \in GoalIds : skipTask(goalId)
AdvanceClock == advanceClock(MaxDay)

NextGoals ==
    \/ AddLifeGoal
    \/ DeleteGoal
    \/ CompleteTask
    \/ SkipTask
    \/ AdvanceClock
    \/ GenerateSchedule

SpecGoals == Init /\ [][NextGoals]_vars

(***************************************************************************)
(* SpecWeek: one goal and the schedules of the days around its target date *)
(***************************************************************************)
AddWeekGoal == \E in \in WeekGoalInputs : addGoal(in, 1)
CompleteWeekTask == \E goalId \in GoalIds : completeTask(goalId, WeekMaxCompleted)
AdvanceWeekClock == advanceClock(WeekMaxDay)

NextWeek ==
    \/ AddWeekGoal
    \/ CompleteWeekTask
    \/ AdvanceWeekClock
    \/ GenerateSchedule

SpecWeek == Init /\ [][NextWeek]_vars

(***************************************************************************)
(* SpecLunch: one long goal and a lunch block                              *)
(***************************************************************************)
AddLunchGoal == \E in \in LunchGoalInputs : addGoal(in, 1)
AddLunchBlock == addFixedBlock(LunchBlock, 1)

NextLunch ==
    \/ AddLunchGoal
    \/ AddLunchBlock
    \/ RemoveFixedBlock
    \/ SetStartTime
    \/ SetAvailableHours
    \/ GenerateSchedule

SpecLunch == Init /\ [][NextLunch]_vars

(***************************************************************************)
(* SpecStreak: one goal completed again and again over more than two weeks *)
(***************************************************************************)
AddStreakGoal == \E in \in LifeGoalInputs : addGoal(in, 1)
CompleteStreakTask == \E goalId \in GoalIds : completeTask(goalId, StreakMaxCompleted)
AdvanceStreakClock == advanceClock(StreakMaxDay)

NextStreak ==
    \/ AddStreakGoal
    \/ CompleteStreakTask
    \/ AdvanceStreakClock

SpecStreak == Init /\ [][NextStreak]_vars


(***************************************************************************)
(* SpecRace: two processes (two CLI runs, or the CLI and the server) write *)
(* goals.json at the same time.  Every readFileSync and every              *)
(* writeFileSync is a step of its own; nothing locks the file.             *)
(***************************************************************************)
Writers == {1, 2}

IdleWriter ==
    [ pc |-> "idle", op |-> "none", goalId |-> 0, seen |-> 0,
      metric |-> <<>>, data |-> <<>> ]

\* the goal that `add` creates in InitRace and in raceBeginAdd
RaceGoalInputs == { g \in GoalInputs : g.description = "Read" }

InitRace ==
    /\ \E in \in RaceGoalInputs, stored \in BOOLEAN :
         /\ goalsFile = IF stored
                        THEN << createGoalObject(1, in.description, in.frequency,
                                    in.priority, in.targetDate, in.weekDay,
                                    in.dailyMinutes, 0) >>
                        ELSE <<>>
         /\ nextId = IF stored THEN 2 ELSE 1
    /\ configFile = <<>>
    /\ today = 0
    /\ utcToday \in { today + d : d \in UtcAhead }
    /\ schedule = <<>>
    /\ ret = "none"
    /\ logged = ""
    /\ writers = [ w \in Writers |-> IdleWriter ]
    /\ defaultBlocks = <<>>

\* completeTask, lines 287-319: loadGoals, find, and the updates computed
\* from the goal that was read
raceBeginComplete(w, goalId) ==
    /\ writers[w].pc = "idle"
    /\ LET goals == loadGoals
           index == findIndex(goals, goalId)
       IN  IF index = 0
           THEN writers' = [writers EXCEPT ![w].pc = "failed",
                                           ![w].op = "complete",
                                           ![w].goalId = goalId]
           ELSE writers' = [writers EXCEPT
                    ![w].pc = "found",
                    ![w].op = "complete",
                    ![w].goalId = goalId,
                    ![w].seen = goals[index].metric.completed,
                    ![w].metric = << completedMetric(goals[index], today, utcToday) >>]
    /\ UNCHANGED <<defaultBlocks, goalsFile, configFile, today, utcToday, nextId, schedule, ret, logged>>

\* updateGoal, lines 69-77: loadGoals again, findIndex, merge
raceUpdateLoad(w) ==
    /\ writers[w].pc = "found"
    /\ LET data == loadGoals
           goalIndex == findIndex(data, writers[w].goalId)
       IN  IF goalIndex = 0
           THEN writers' = [writers EXCEPT ![w].pc = "failed"]
           ELSE writers' = [writers EXCEPT
                    ![w].pc = "ready",
                    ![w].data = mergeUpdates(data, goalIndex, writers[w].metric[1])]
    /\ UNCHANGED <<defaultBlocks, goalsFile, configFile, today, utcToday, nextId, schedule, ret, logged>>

\* addGoal, lines 39-40: loadGoals, push
raceBeginAdd(w, in) ==
    /\ writers[w].pc = "idle"
    /\ nextId <= MaxGoals
    /\ writers' = [writers EXCEPT
           ![w].pc = "ready",
           ![w].op = "add",
           ![w].goalId = nextId,
           ![w].data = Append(loadGoals,
                          createGoalObject(nextId, in.description, in.frequency,
                              in.priority, in.targetDate, in.weekDay,
                              in.dailyMinutes, utcToday))]
    /\ nextId' = nextId + 1
    /\ UNCHANGED <<defaultBlocks, goalsFile, configFile, today, utcToday, schedule, ret, logged>>

\* deleteGoal, lines 51-56: loadGoals, findIndex, splice
raceBeginDelete(w, goalId) ==
    /\ writers[w].pc = "idle"
    /\ LET goals == loadGoals
           index == findIndex(goals, goalId)
       IN  IF index = 0
           THEN writers' = [writers EXCEPT ![w].pc = "failed",
                                           ![w].op = "delete",
                                           ![w].goalId = goalId]
           ELSE writers' = [writers EXCEPT
                    ![w].pc = "ready",
                    ![w].op = "delete",
                    ![w].goalId = goalId,
                    ![w].data = SubSeq(goals, 1, index - 1)
                                \o SubSeq(goals, index + 1, Len(goals))]
    /\ UNCHANGED <<defaultBlocks, goalsFile, configFile, today, utcToday, nextId, schedule, ret, logged>>

\* saveGoals: the whole array the writer holds replaces the file
raceSave(w) ==
    /\ writers[w].pc = "ready"
    /\ \E saved \in BOOLEAN :
         /\ goalsFile' = IF saved THEN writers[w].data ELSE goalsFile
         /\ writers' = [writers EXCEPT
                          ![w].pc = IF saved \/ writers[w].op # "complete"
                                    THEN "done" ELSE "failed"]
    /\ UNCHANGED <<defaultBlocks, configFile, today, utcToday, nextId, schedule, ret, logged>>

RaceBeginComplete == \E w \in Writers, goalId \in GoalIds : raceBeginComplete(w, goalId)
RaceUpdateLoad == \E w \in Writers : raceUpdateLoad(w)
RaceBeginAdd == \E w \in Writers, in \in RaceGoalInputs : raceBeginAdd(w, in)
RaceBeginDelete == \E w \in Writers, goalId \in GoalIds : raceBeginDelete(w, goalId)
RaceSave == \E w \in Writers : raceSave(w)

NextRace ==
    \/ RaceBeginComplete
    \/ RaceUpdateLoad
    \/ RaceBeginAdd
    \/ RaceBeginDelete
    \/ RaceSave

SpecRace == InitRace /\ [][NextRace]_vars

(***************************************************************************)
(* SpecOrder: goals of every priority and frequency, in any stored order   *)
(***************************************************************************)
\* config add-block Standup 09:30 10:00 daily
OrderBlock == CHOOSE in \in BlockInputs : in.name = "Standup"

AddOrderGoal == \E in \in GoalInputs : addGoal(in, MaxGoals)
AddOrderBlock == addFixedBlock(OrderBlock, 1)

NextOrder ==
    \/ AddOrderGoal
    \/ AddOrderBlock
    \/ GenerateSchedule

SpecOrder == Init /\ [][NextOrder]_vars

(***************************************************************************)
(* SpecSplit: one goal among overlapping, adjacent, empty and inverted     *)
(* fixed blocks                                                            *)
(***************************************************************************)
SplitBlockInputs ==
    AcceptedBlockInputs
      \cup { [ name |-> "Instant", startTime |-> T0930, endTime |-> T0930,
               recurrence |-> "daily", weekDayOrDate |-> "null" ],
             [ name |-> "Retro", startTime |-> T1000, endTime |-> T1030,
               recurrence |-> "daily", weekDayOrDate |-> "null" ] }

AddSplitGoal == \E in \in ScheduleGoalInputs : addGoal(in, 1)
AddSplitBlock == \E in \in SplitBlockInputs : addFixedBlock(in, MaxBlocks)

NextSplit ==
    \/ AddSplitGoal
    \/ AddSplitBlock
    \/ SetStartTime
    \/ GenerateSchedule

SpecSplit == Init /\ [][NextSplit]_vars

(***************************************************************************)
(* SpecProcess: one process that calls configManager again and again while *)
(* writes to config.json may fail. DEFAULT_CONFIG lives as long as the     *)
(* process, and {...DEFAULT_CONFIG} copies the reference to its fixedBlocks *)
(* array, not the array. (The commands above each run in a process of      *)
(* their own, which starts with the array empty.)                          *)
(***************************************************************************)
ProcessBlockInputs == { in \in BlockInputs : in.name \in {"Standup", "Dentist"} }

\* addFixedBlock, lines 73-110: push works on the array that loadConfig
\* returned, which is DEFAULT_CONFIG.fixedBlocks when there is no file
processAddFixedBlock(in, maxBlocks) ==
    /\ IF ~addFixedBlockAccepts(in.startTime, in.endTime, in.recurrence,
                                in.weekDayOrDate)
       THEN /\ ret' = "fail"
            /\ logged' = addFixedBlockMessage(in.startTime, in.endTime,
                                              in.recurrence, in.weekDayOrDate)
            /\ UNCHANGED <<configFile, defaultBlocks>>
       ELSE LET config == loadConfig
                block == newFixedBlock(in.name, in.startTime, in.endTime,
                                       in.recurrence, in.weekDayOrDate)
                pushed == Append(config.fixedBlocks, block)
            IN  /\ Len(config.fixedBlocks) < maxBlocks
                /\ defaultBlocks' = IF configFile = <<>> THEN pushed
                                    ELSE defaultBlocks
                /\ \E saved \in BOOLEAN :
                     /\ configFile' = IF saved
                                      THEN << [config EXCEPT !.fixedBlocks = pushed] >>
                                      ELSE configFile
                     /\ ret' = IF saved THEN "ok" ELSE "fail"
                /\ logged' = ""
    /\ schedule' = <<>>
    /\ UNCHANGED <<goalsFile, today, utcToday, nextId, writers>>

\* removeFixedBlock, lines 113-122: splice works on the same array
processRemoveFixedBlock(index) ==
    /\ LET config == loadConfig
       IN  IF index < 0 \/ index >= Len(config.fixedBlocks)
           THEN /\ ret' = "fail"
                /\ UNCHANGED <<configFile, defaultBlocks>>
           ELSE LET spliced == [ i \in 1..(Len(config.fixedBlocks) - 1) |->
                                   IF i <= index THEN config.fixedBlocks[i]
                                   ELSE config.fixedBlocks[i + 1] ]
                IN  /\ defaultBlocks' = IF configFile = <<>> THEN spliced
                                        ELSE defaultBlocks
                    /\ \E saved \in BOOLEAN :
                         /\ configFile' = IF saved
                                          THEN << [config EXCEPT !.fixedBlocks = spliced] >>
                                          ELSE configFile
                         /\ ret' = IF saved THEN "ok" ELSE "fail"
    /\ logged' = ""
    /\ schedule' = <<>>
    /\ UNCHANGED <<goalsFile, today, utcToday, nextId, writers>>

\* setStartTime, lines 50-59: startTime is set on the copy
processSetStartTime(time) ==
    /\ \E saved \in BOOLEAN :
         /\ configFile' = IF saved THEN << [loadConfig EXCEPT !.startTime = time] >>
                          ELSE configFile
         /\ ret' = IF saved THEN "ok" ELSE "fail"
    /\ logged' = ""
    /\ schedule' = <<>>
    /\ UNCHANGED <<defaultBlocks, goalsFile, today, utcToday, nextId, writers>>

ProcessAddFixedBlock == \E in \in ProcessBlockInputs : processAddFixedBlock(in, MaxBlocks)
ProcessRemoveFixedBlock == \E index \in 0..(MaxBlocks - 1) : processRemoveFixedBlock(index)
ProcessSetStartTime == \E time \in StartTimeInputs : processSetStartTime(time)
AddProcessGoal == \E in \in RaceGoalInputs : addGoal(in, 1)

NextProcess ==
    \/ ProcessAddFixedBlock
    \/ ProcessRemoveFixedBlock
    \/ ProcessSetStartTime
    \/ AddProcessGoal
    \/ GenerateSchedule

SpecProcess == Init /\ [][NextProcess]_vars

(***************************************************************************)
(* SpecFrame: several stored goals, completed in any order                 *)
(***************************************************************************)
AddFrameGoal == \E in \in LifeGoalInputs : addGoal(in, MaxGoals)
CompleteFrameTask == \E goalId \in GoalIds : completeTask(goalId, MaxCompleted)

NextFrame ==
    \/ AddFrameGoal
    \/ CompleteFrameTask

SpecFrame == Init /\ [][NextFrame]_vars

(***************************************************************************)
(* Properties of the generated schedule                                    *)
(***************************************************************************)
Generated == schedule # <<>>

Entries == schedule[1].tasks

\* the fixed blocks that the generator works with in the current state
ActiveBlocks == prepareFixedBlocks(loadConfig, today, utcToday)

\* the goals that produce a task in the current state
IsEligible(goal) == shouldGenerateTaskToday(goal, today)

RECURSIVE SumDurations(_, _)
SumDurations(entries, goalId) ==
    IF entries = <<>> THEN 0
    ELSE (IF ~Head(entries).isFixed /\ Head(entries).goalId = goalId
          THEN Head(entries).duration ELSE 0)
         + SumDurations(Tail(entries), goalId)

PartsOf(goalId) ==
    { i \in 1..Len(Entries) : ~Entries[i].isFixed /\ Entries[i].goalId = goalId }

\* C1: no two entries of a generated schedule overlap: of any two entries
\* a, b with a.start <= b.start, a ends no later than b starts.
C1_NoOverlap ==
    Generated =>
      LET es == Entries
      IN  \A i, j \in 1..Len(es) :
            (i # j /\ es[i].start <= es[j].start) => es[i].end <= es[j].start

\* C2: the entries of a generated schedule are in ascending order of start.
C2_SortedByStart ==
    Generated =>
      LET es == Entries
      IN  \A i \in 1..(Len(es) - 1) : es[i].start <= es[i + 1].start

\* C3: the task entries of an eligible goal with positive dailyMinutes add up
\* to exactly the goal's dailyMinutes.
C3_DurationConserved ==
    Generated =>
      LET es == Entries
      IN  \A k \in 1..Len(goalsFile) :
            (IsEligible(goalsFile[k]) /\ goalsFile[k].metric.dailyMinutes > 0)
              => SumDurations(es, goalsFile[k].id)
                   = goalsFile[k].metric.dailyMinutes

\* a schedule in which one goal is split into two or more parts
C3_Witness ==
    /\ Generated
    /\ \E k \in 1..Len(goalsFile) :
         /\ IsEligible(goalsFile[k])
         /\ Cardinality(PartsOf(goalsFile[k].id)) >= 2

Completes(goalId, maxCompleted) ==
    completeTask(goalId, maxCompleted) /\ ret' = "ok"

StoredGoal(goalId) == goalsFile[findIndex(goalsFile, goalId)]

\* C5: a successful completeTask(goalId) leaves the goal's lastCompleted equal
\* to today, and a schedule generated while a goal's lastCompleted is today
\* has no task entry of that goal.
C5_CompletedGoalNotScheduled ==
    /\ [][ \A goalId \in GoalIds :
             Completes(goalId, MaxCompleted) =>
               goalsFile'[findIndex(goalsFile, goalId)].metric.lastCompleted
                 = <<today>> ]_vars
    /\ [](Generated =>
            \A k \in 1..Len(goalsFile) :
              goalsFile[k].metric.lastCompleted = <<today>>
                => PartsOf(goalsFile[k].id) = {})

\* a schedule generated on the day a daily goal was completed, a day within
\* its target date on which it would be scheduled but for the completion
C5_Witness ==
    /\ Generated
    /\ \E k \in 1..Len(goalsFile) :
         /\ goalsFile[k].metric.lastCompleted = <<today>>
         /\ goalsFile[k].frequency = "daily"
         /\ today <= goalsFile[k].targetDate
         /\ PartsOf(goalsFile[k].id) = {}

\* C6: a successful completeTask adds exactly 1 to the goal's completed, sets
\* lastCompleted to today and stores the progress that calculateProgress
\* gives for the goal with the new count; no step lowers a stored goal's
\* completed.
C6_CompletionCounts ==
    [][ /\ \A goalId \in GoalIds :
             Completes(goalId, MaxCompleted) =>
               LET i == findIndex(goalsFile, goalId)
                   old == goalsFile[i].metric
                   new == goalsFile'[i].metric
                   progress == calculateProgress(goalsFile'[i], utcToday)
               IN  /\ new.completed = old.completed + 1
                   /\ new.lastCompleted = <<today>>
                   /\ new.progressPercentage = progress.progressPercentage
                   /\ new.expectedCompletions = progress.expectedCompletions
        /\ \A i \in 1..Len(goalsFile), j \in 1..Len(goalsFile') :
             goalsFile[i].id = goalsFile'[j].id
               => goalsFile'[j].metric.completed >= goalsFile[i].metric.completed
      ]_vars

\* a goal that was just completed for the second time, days after its creation
C6_Witness ==
    /\ ret = "ok"
    /\ \E k \in 1..Len(goalsFile) :
         /\ goalsFile[k].metric.completed = 2
         /\ goalsFile[k].metric.lastCompleted = <<today>>
         /\ goalsFile[k].createdDate < utcToday

IsProgressOf(percentage, completed, expected) ==
    IF expected = 0 THEN completed > 0 /\ percentage = 100
    ELSE percentage = Min(100, (200 * completed + expected) \div (2 * expected))

OneTimeProgress(goal) ==
    /\ goal.metric.progressPercentage \in {0, 100}
    /\ goal.metric.progressPercentage = 100 <=> goal.metric.completed > 0
    /\ goal.metric.completed > 0
         => goal.metric.expectedCompletions = 1 /\ goal.metric.streak = 0

\* C10 as stated: in every state of the goal store, from the creation of the
\* goal on, a daily or weekly goal's progressPercentage is
\* min(100, round(100 * completed / expectedCompletions)), and a one-time
\* goal's is 100 if completed > 0 and 0 otherwise.
C10_ProgressAlways ==
    \A k \in 1..Len(goalsFile) :
      IF goalsFile[k].frequency = "one-time" THEN OneTimeProgress(goalsFile[k])
      ELSE IsProgressOf(goalsFile[k].metric.progressPercentage,
                        goalsFile[k].metric.completed,
                        goalsFile[k].metric.expectedCompletions)

\* C10 amended: the same for every daily or weekly goal that has been
\* completed at least once; a goal that was never completed is stored with
\* completed = 0, expectedCompletions = 0 and progressPercentage = 0.
C10_ProgressOnceCompleted ==
    \A k \in 1..Len(goalsFile) :
      LET goal == goalsFile[k]
      IN  IF goal.frequency = "one-time" THEN OneTimeProgress(goal)
          ELSE IF goal.metric.completed = 0
          THEN /\ goal.metric.expectedCompletions = 0
               /\ goal.metric.progressPercentage = 0
          ELSE /\ goal.metric.expectedCompletions >= 1
               /\ IsProgressOf(goal.metric.progressPercentage,
                               goal.metric.completed,
                               goal.metric.expectedCompletions)

\* a daily or weekly goal completed at least once, but less often than
\* expected
C10_Witness ==
    \E k \in 1..Len(goalsFile) :
      /\ goalsFile[k].frequency # "one-time"
      /\ goalsFile[k].metric.completed >= 1
      /\ goalsFile[k].metric.progressPercentage \notin {0, 100}


(***************************************************************************)
(* Properties of concurrent writers                                        *)
(***************************************************************************)
\* both writers have completed the same goal with success, and it is stored
BothCompleted(goalId) ==
    /\ \A w \in Writers :
         /\ writers[w].pc = "done"
         /\ writers[w].op = "complete"
         /\ writers[w].goalId = goalId
    /\ findIndex(goalsFile, goalId) # 0

\* C7: a writer stores the count it computed from its own first read, so two
\* successful completions of one goal leave completed at 1 + the larger of
\* the two counts read: 2 more than before when the second writer read after
\* the first one wrote, and only 1 more when both read the same count.
C7_LastWriterWins ==
    \A goalId \in GoalIds :
      BothCompleted(goalId) =>
        StoredGoal(goalId).metric.completed
          = 1 + Max(writers[1].seen, writers[2].seen)

\* the lost update: two successful completions of a goal that had never been
\* completed, and completed is 1
C7_Witness ==
    \E goalId \in GoalIds :
      /\ BothCompleted(goalId)
      /\ writers[1].seen = 0 /\ writers[2].seen = 0
      /\ StoredGoal(goalId).metric.completed = 1



(***************************************************************************)
(* Properties of the config store                                          *)
(***************************************************************************)
StoredBlocks == IF configFile = <<>> THEN <<>> ELSE configFile[1].fixedBlocks

\* C15: every fixed block of the stored configuration starts before it ends,
\* in minutes since midnight.
C15_BlocksStartBeforeEnd ==
    \A b \in 1..Len(StoredBlocks) :
      timeToMinutes(StoredBlocks[b].startTime)
        < timeToMinutes(StoredBlocks[b].endTime)

\* an add-block call that names a weekly block without a day, a one-time
\* block without a date, or a recurrence that does not exist
LacksRecurrenceField(in) ==
    \/ in.recurrence = "weekly" /\ in.weekDayOrDate = "null"
    \/ in.recurrence = "one-time" /\ in.weekDayOrDate = "null"
    \/ in.recurrence \notin {"daily", "weekly", "one-time"}

\* C16: addFixedBlock called for a weekly block without a day, for a one-time
\* block without a date or with an unknown recurrence returns failure and
\* leaves the stored configuration as it was.
C16_IncompleteBlockRefused ==
    [][ \A in \in BlockInputs :
          (LacksRecurrenceField(in) /\ addFixedBlock(in, MaxBlocks))
            => (ret' = "fail" /\ configFile' = configFile) ]_vars

\* a weekly block without a day was just refused by a store that holds a block
C16_Witness ==
    /\ ret = "fail"
    /\ logged = "Weekly blocks require a day (e.g., Monday, Tuesday)"
    /\ Len(StoredBlocks) >= 1

\* C17: setStartTime called with a string that is not HH:MM in 24-hour form
\* returns failure and leaves the stored configuration as it was, so that the
\* stored startTime is always well formed.
C17_MalformedStartTimeRejected ==
    /\ [][ \A time \in MalformedStartTimeInputs :
              setStartTime(time) => (ret' = "fail" /\ configFile' = configFile)
        ]_vars
    /\ [](configFile # <<>> => isValidTimeFormat(configFile[1].startTime))


(***************************************************************************)
(* Properties of the commands on goals that are missing or skipped         *)
(***************************************************************************)
\* C11: completeTask(goalId) for a goalId that no stored goal has returns
\* false, without throwing, and leaves goals.json as it was.
C11_MissingGoalFails ==
    [][ \A goalId \in GoalIds :
          (findIndex(goalsFile, goalId) = 0 /\ completeTask(goalId, MaxCompleted))
            => (ret' = "fail" /\ goalsFile' = goalsFile) ]_vars

\* completeTask has just missed a goal in a store that holds another goal
C11_Witness ==
    /\ ret = "fail"
    /\ logged = "Goal not found"
    /\ Len(goalsFile) >= 1

\* C18: skipTask(goalId) on a stored goal reports success and leaves the
\* goal's completed, streak, progressPercentage and lastCompleted as they
\* were, so that the goal is as eligible as before.
C18_SkipKeepsGoal ==
    [][ \A goalId \in GoalIds :
          (findIndex(goalsFile, goalId) # 0 /\ skipTask(goalId))
            => /\ ret' = "ok"
               /\ findIndex(goalsFile', goalId) # 0
               /\ LET old == goalsFile[findIndex(goalsFile, goalId)]
                      new == goalsFile'[findIndex(goalsFile', goalId)]
                  IN  /\ new.metric.completed = old.metric.completed
                      /\ new.metric.streak = old.metric.streak
                      /\ new.metric.progressPercentage
                           = old.metric.progressPercentage
                      /\ new.metric.lastCompleted = old.metric.lastCompleted
                      /\ IsEligible(new) = IsEligible(old) ]_vars


(***************************************************************************)
(* Properties of eligibility                                               *)
(***************************************************************************)
\* C12: in a generated schedule, a daily or weekly goal that was not
\* completed today has a task iff it is daily and today <= targetDate, or it
\* is weekly, its weekDay is today's weekday name and today <= targetDate.
C12_RecurringEligibility ==
    Generated =>
      \A k \in 1..Len(goalsFile) :
        LET goal == goalsFile[k]
        IN  (goal.frequency \in {"daily", "weekly"}
               /\ goal.metric.lastCompleted # <<today>>)
              => (PartsOf(goal.id) # {}
                    <=> \/ goal.frequency = "daily" /\ today <= goal.targetDate
                        \/ /\ goal.frequency = "weekly"
                           /\ goal.weekDay = DayName(today)
                           /\ today <= goal.targetDate)

\* a weekly goal scheduled on its target date, a week after it was completed
C12_Witness ==
    /\ Generated
    /\ \E k \in 1..Len(goalsFile) :
         /\ goalsFile[k].frequency = "weekly"
         /\ goalsFile[k].targetDate = today
         /\ goalsFile[k].metric.lastCompleted = <<today - 7>>
         /\ PartsOf(goalsFile[k].id) # {}

\* C13: in a generated schedule, a one-time goal whose targetDate is today or
\* earlier has a task unless its lastCompleted is today, however often it was
\* completed before.
C13_OneTimeEligibleAgain ==
    Generated =>
      \A k \in 1..Len(goalsFile) :
        LET goal == goalsFile[k]
        IN  (goal.frequency = "one-time" /\ goal.targetDate <= today)
              => (PartsOf(goal.id) = {} <=> goal.metric.lastCompleted = <<today>>)

\* a one-time goal that was completed on an earlier day and is scheduled again
C13_Witness ==
    /\ Generated
    /\ \E k \in 1..Len(goalsFile) :
         /\ goalsFile[k].frequency = "one-time"
         /\ goalsFile[k].metric.completed > 0
         /\ goalsFile[k].metric.lastCompleted # Null
         /\ goalsFile[k].metric.lastCompleted[1] < today
         /\ PartsOf(goalsFile[k].id) # {}


(***************************************************************************)
(* Properties of the result of generateTodaysSchedule                      *)
(***************************************************************************)
\* C14: generating a schedule leaves goals.json and config.json as they
\* were, and the goal list passed to generateTodaysSchedule has the same
\* goals in the same order after the call.  (The steps that end with a
\* schedule are the generateSchedule steps.)
C14_GenerateReadsOnly ==
    /\ [][ schedule' # <<>>
             => (goalsFile' = goalsFile /\ configFile' = configFile) ]_vars
    /\ [](Generated => schedule[1].goalsArgument = goalsFile)

\* a schedule whose first task is not of the first stored goal, though that
\* goal is scheduled, generated with a fixed block in the configuration
C14_Witness ==
    /\ Generated
    /\ Len(goalsFile) >= 2
    /\ IsEligible(goalsFile[1])
    /\ Len(StoredBlocks) >= 1
    /\ \E i \in 1..Len(Entries) :
         /\ ~Entries[i].isFixed
         /\ Entries[i].goalId # goalsFile[1].id
         /\ \A j \in 1..(i - 1) : Entries[j].isFixed

\* the sum of the durations of the task entries of a schedule
RECURSIVE SumTaskDurations(_)
SumTaskDurations(entries) ==
    IF entries = <<>> THEN 0
    ELSE (IF Head(entries).isFixed THEN 0 ELSE Head(entries).duration)
         + SumTaskDurations(Tail(entries))

\* the sum of dailyMinutes of the goals that are eligible today
RECURSIVE SumEligibleMinutes(_)
SumEligibleMinutes(goals) ==
    IF goals = <<>> THEN 0
    ELSE (IF IsEligible(Head(goals)) THEN Head(goals).metric.dailyMinutes ELSE 0)
         + SumEligibleMinutes(Tail(goals))

\* C20: overcommitted is true exactly when totalMinutes > availableHours * 60,
\* where totalMinutes is the sum of the durations of the task entries, which
\* is the sum of dailyMinutes of the eligible goals: neither fixed blocks nor
\* buffers count.
C20_Overcommitted ==
    Generated =>
      LET result == schedule[1]
      IN  /\ result.totalMinutes = SumTaskDurations(result.tasks)
          /\ result.totalMinutes = SumEligibleMinutes(goalsFile)
          /\ result.overcommitted
               <=> result.totalMinutes > loadConfig.availableHours * 60

\* a day of one hour taken up to the minute by a task that a fixed block
\* splits, which is not overcommitted
C20_Witness ==
    /\ Generated
    /\ schedule[1].totalMinutes = 60
    /\ loadConfig.availableHours = 1
    /\ ~schedule[1].overcommitted
    /\ \E i \in 1..Len(Entries) : Entries[i].isFixed
    /\ \E i \in 1..Len(Entries) :
         ~Entries[i].isFixed /\ Entries[i].description.part > 1


\* start time 09:00, eight available hours, the daily block Lunch
\* 12:00-13:00 and one eligible goal of 240 minutes
LunchScenario ==
    /\ loadConfig.startTime = T0900
    /\ loadConfig.availableHours = 8
    /\ Len(StoredBlocks) = 1
    /\ StoredBlocks[1].name = "Lunch"
    /\ Len(goalsFile) = 1
    /\ goalsFile[1].metric.dailyMinutes = 240
    /\ IsEligible(goalsFile[1])

\* C19 as stated: in the lunch scenario the returned endTime is 1:50 PM.
C19_LunchEndsAt150 ==
    (Generated /\ LunchScenario)
      => schedule[1].endTime = <<"1", ":", "5", "0", " ", "P", "M">>

\* C19 amended: in the lunch scenario the schedule is the task 9:00 AM to
\* 12:00 PM, Lunch, and the task (Part 2) 1:00 PM to 2:00 PM, and the
\* returned endTime is 2:00 PM, the end of the last task.
C19_LunchEndsAt200 ==
    (Generated /\ LunchScenario)
      => /\ Len(Entries) = 3
         /\ ~Entries[1].isFixed /\ Entries[1].start = 540 /\ Entries[1].end = 720
         /\ Entries[2].isFixed /\ Entries[2].start = 720 /\ Entries[2].end = 780
         /\ ~Entries[3].isFixed /\ Entries[3].start = 780 /\ Entries[3].end = 840
         /\ Entries[3].description.part = 2
         /\ Entries[3].endTime = <<"2", ":", "0", "0", " ", "P", "M">>
         /\ schedule[1].endTime = <<"2", ":", "0", "0", " ", "P", "M">>

\* the schedule of the lunch scenario
C19_Witness == Generated /\ LunchScenario

(***************************************************************************)
(* The day without an eligible goal                                        *)
(***************************************************************************)
NoneEligible == \A i \in 1..Len(goalsFile) : ~IsEligible(goalsFile[i])

MinutesPerDay == 24 * 60

\* C21: when no goal is eligible today, the generated schedule has no entry
\* at all, totalMinutes 0 and overcommitted false, its startTime is the
\* configured one and its endTime is the formatted form of a minute of the
\* day that is not earlier than the configured startTime.
C21_NoEligibleGoal ==
    (Generated /\ NoneEligible) =>
      /\ Entries = <<>>
      /\ schedule[1].totalMinutes = 0
      /\ ~schedule[1].overcommitted
      /\ schedule[1].startTime = loadConfig.startTime
      /\ \E minute \in timeToMinutes(loadConfig.startTime)..(MinutesPerDay - 1) :
           schedule[1].endTime = formatTime(minute)

(***************************************************************************)
(* Parts, buffers and the end of the day                                   *)
(***************************************************************************)
\* C23: the k-th task entry of a goal, counted over that goal's task entries
\* only, is marked as a part and labelled "(Part k)" iff k > 1.
C23_PartLabels ==
    Generated =>
      LET es == Entries
      IN  \A i \in 1..Len(es) :
            ~es[i].isFixed =>
              LET k == Cardinality({ j \in PartsOf(es[i].goalId) : j <= i })
              IN  /\ es[i].isPart = (k > 1)
                  /\ es[i].description.part = (IF k > 1 THEN k ELSE 0)

\* a goal in two parts, the second one after a fixed block that the cursor
\* was already inside of when the loop found it
C23_Witness ==
    /\ Generated
    /\ \E i \in 2..Len(Entries) :
         /\ ~Entries[i].isFixed
         /\ Entries[i].description.part = 2
         /\ Entries[i - 1].isFixed
         /\ Entries[i - 1].cursor >= Entries[i - 1].start

\* C24: a task entry directly after a task entry starts exactly
\* BUFFER_MINUTES after that entry ends, and a task entry directly after a
\* fixed-block entry starts exactly at the end of the block.
C24_BufferPlacement ==
    Generated =>
      LET es == Entries
      IN  \A i \in 1..(Len(es) - 1) :
            ~es[i + 1].isFixed =>
              es[i + 1].start = (IF es[i].isFixed THEN es[i].end
                                 ELSE es[i].end + BUFFER_MINUTES)

C24_Witness ==
    /\ Generated
    /\ \E i \in 1..(Len(Entries) - 1) :
         ~Entries[i].isFixed /\ ~Entries[i + 1].isFixed
    /\ \E i \in 1..(Len(Entries) - 1) :
         Entries[i].isFixed /\ ~Entries[i + 1].isFixed

\* C25: the endTime of a schedule with entries is the end time of the last
\* entry when that is a task, and BUFFER_MINUTES before the end of the last
\* entry when that is a fixed block.
C25_EndTime ==
    (Generated /\ Entries # <<>>) =>
      LET last == Entries[Len(Entries)]
      IN  schedule[1].endTime = (IF last.isFixed
                                 THEN formatTime(last.end - BUFFER_MINUTES)
                                 ELSE last.endTime)

\* a goal that ends exactly where a fixed block starts
C25_Witness ==
    /\ Generated
    /\ Len(Entries) >= 2
    /\ Entries[Len(Entries)].isFixed
    /\ ~Entries[Len(Entries) - 1].isFixed
    /\ Entries[Len(Entries) - 1].end = Entries[Len(Entries)].start

(***************************************************************************)
(* The fixed blocks in the schedule                                        *)
(***************************************************************************)
SameBlock(entry, block) ==
    entry.id = block.name /\ entry.start = block.start /\ entry.end = block.end

\* C28: the schedule has no more entries of a fixed block than there are
\* active blocks of that name and time, and every fixed-block entry was
\* pushed by an iteration whose cursor was before the block's end and whose
\* proposed end was at or after the block's start.
C28_BlockAtMostOnce ==
    Generated =>
      LET es == Entries
          bs == ActiveBlocks
      IN  \A i \in 1..Len(es) :
            es[i].isFixed =>
              /\ Cardinality({ j \in 1..Len(es) :
                                 es[j].isFixed /\ es[j].id = es[i].id
                                   /\ es[j].start = es[i].start
                                   /\ es[j].end = es[i].end })
                   <= Cardinality({ b \in 1..Len(bs) : SameBlock(es[i], bs[b]) })
              /\ es[i].cursor < es[i].end
              /\ es[i].proposedEnd >= es[i].start

\* two goals in the schedule, a block that a goal has collided with and an
\* active block that no goal has collided with
C28_Witness ==
    /\ Generated
    /\ \E i, j \in 1..Len(Entries) :
         /\ ~Entries[i].isFixed /\ ~Entries[j].isFixed
         /\ Entries[i].goalId # Entries[j].goalId
    /\ \E i \in 1..Len(Entries) : Entries[i].isFixed
    /\ \E b \in 1..Len(ActiveBlocks) :
         \A i \in 1..Len(Entries) :
           ~(Entries[i].isFixed /\ SameBlock(Entries[i], ActiveBlocks[b]))

(***************************************************************************)
(* The fixed blocks of the day                                             *)
(***************************************************************************)
\* the blocks of the configuration that are active today, by their recurrence
IsActiveToday(block) ==
    IF block.recurring # "undefined" THEN block.recurring = "true"
    ELSE \/ block.recurrence = "daily"
         \/ block.recurrence = "weekly" /\ block.weekDay = DayName(today)
         \/ block.recurrence = "one-time" /\ block.date = IsoDate(today)

\* C26: the blocks that prepareFixedBlocks returns are exactly the configured
\* blocks active today (daily ones, weekly ones of today's weekday, one-time
\* ones of today's date, legacy ones whose recurring is true), with their
\* times in minutes, in ascending order of start.
C26_BlockSelection ==
    Generated =>
      LET bs == prepareFixedBlocks(loadConfig, today, utcToday)
          expected == SelectSeq(loadConfig.fixedBlocks, IsActiveToday)
      IN  /\ Len(bs) = Len(expected)
          /\ \A i \in 1..Len(expected) :
               \E j \in 1..Len(bs) :
                 /\ bs[j].name = expected[i].name
                 /\ bs[j].start = timeToMinutes(expected[i].startTime)
                 /\ bs[j].end = timeToMinutes(expected[i].endTime)
          /\ \A i \in 1..(Len(bs) - 1) : bs[i].start <= bs[i + 1].start

(***************************************************************************)
(* The order of the goals in the schedule                                  *)
(***************************************************************************)
\* goal g comes before goal h in the order of the scheduler
OrderedBefore(g, h) ==
    \/ priorityOrder(g.priority) > priorityOrder(h.priority)
    \/ /\ priorityOrder(g.priority) = priorityOrder(h.priority)
       /\ g.metric.dailyMinutes > h.metric.dailyMinutes

FirstEntryOf(goalId) ==
    CHOOSE i \in PartsOf(goalId) : \A j \in PartsOf(goalId) : i <= j

\* C22: of two eligible goals, the one of higher priority, or of the same
\* priority and more dailyMinutes, has its first task entry earlier in the
\* schedule, and that entry does not start after the other goal's first.
C22_SchedulingOrder ==
    Generated =>
      \A a, b \in 1..Len(goalsFile) :
        LET g == goalsFile[a]
            h == goalsFile[b]
        IN  (IsEligible(g) /\ IsEligible(h) /\ OrderedBefore(g, h)) =>
              /\ PartsOf(g.id) # {} /\ PartsOf(h.id) # {}
              /\ FirstEntryOf(g.id) < FirstEntryOf(h.id)
              /\ Entries[FirstEntryOf(g.id)].start
                   <= Entries[FirstEntryOf(h.id)].start

\* two goals of the same priority, stored with the shorter one first and
\* scheduled with the longer one first
C22_Witness ==
    /\ Generated
    /\ Len(goalsFile) >= 2
    /\ goalsFile[1].priority = goalsFile[2].priority
    /\ goalsFile[1].metric.dailyMinutes < goalsFile[2].metric.dailyMinutes
    /\ PartsOf(goalsFile[1].id) # {} /\ PartsOf(goalsFile[2].id) # {}
    /\ FirstEntryOf(goalsFile[2].id) < FirstEntryOf(goalsFile[1].id)

(***************************************************************************)
(* Termination of the split-scheduling loop                                *)
(***************************************************************************)
\* C27: generateTodaysSchedule returns with the loop of every eligible goal
\* ended, each after at most one iteration per active block and one more,
\* and every fixed block pushed has moved the cursor strictly forward.
C27_LoopTerminates ==
    Generated =>
      LET loops == schedule[1].loops
          eligible == SelectSeq(goalsFile, IsEligible)
      IN  /\ ret = "ok"
          /\ Len(loops) = Len(eligible)
          /\ \A i \in 1..Len(loops) :
               /\ ~loops[i].looping
               /\ loops[i].iterations <= Len(ActiveBlocks) + 1
          /\ \A i \in 1..Len(Entries) :
               Entries[i].isFixed =>
                 Entries[i].cursor < cursorAfterBlock(Entries[i])

\* a loop of three iterations that has pushed a block of length zero
C27_Witness ==
    /\ Generated
    /\ Len(schedule[1].loops) = 1
    /\ schedule[1].loops[1].iterations >= 3
    /\ \E i \in 1..Len(Entries) :
         Entries[i].isFixed /\ Entries[i].start = Entries[i].end

(***************************************************************************)
(* The defaults of the configuration                                       *)
(***************************************************************************)
\* C29: while there is no readable config.json, loadConfig returns startTime
\* 09:00, availableHours 8 and no fixed block, and a generated schedule has
\* no fixed-block entry, whatever was called before.
C29_DefaultsClean ==
    configFile = <<>> =>
      /\ loadConfig = DEFAULT_CONFIG
      /\ Generated => \A i \in 1..Len(Entries) : ~Entries[i].isFixed

(***************************************************************************)
(* The frame of completeTask                                               *)
(***************************************************************************)
FrameMetricFields ==
    { "completed", "lastCompleted", "streak", "progressPercentage",
      "expectedCompletions" }

\* C30: a successful completeTask(goalId) leaves the number and the order of
\* the stored goals and every goal but the first one of that id as they were,
\* and changes of that goal nothing but the metric fields completed,
\* lastCompleted, streak, progressPercentage and expectedCompletions.
C30_CompleteTaskFrame ==
    [][ \A goalId \in GoalIds :
          Completes(goalId, MaxCompleted) =>
            LET i == findIndex(goalsFile, goalId)
            IN  /\ Len(goalsFile') = Len(goalsFile)
                /\ \A j \in 1..Len(goalsFile) : j # i => goalsFile'[j] = goalsFile[j]
                /\ DOMAIN goalsFile'[i] = DOMAIN goalsFile[i]
                /\ \A f \in DOMAIN goalsFile[i] \ {"metric"} :
                     goalsFile'[i][f] = goalsFile[i][f]
                /\ DOMAIN goalsFile'[i].metric = DOMAIN goalsFile[i].metric
                /\ \A f \in DOMAIN goalsFile[i].metric \ FrameMetricFields :
                     goalsFile'[i].metric[f] = goalsFile[i].metric[f]
      ]_vars

\* the first of two stored goals was just completed, the second one never
C30_Witness ==
    /\ ret = "ok" /\ logged = ""
    /\ Len(goalsFile) = 2
    /\ goalsFile[1].metric.lastCompleted = <<today>>
    /\ goalsFile[2].metric.completed = 0

=============================================================================
